---------------------------- MODULE Spec2Model ----------------------------
(***************************************************************************)
(* The Q-learning policy engine of app.py: get_state, choose_action and   *)
(* update_q over the module-level q_table, and the two UI handlers        *)
(* (analyze_sentiment, handle_chat) that drive them.                       *)
(*                                                                         *)
(* Numbers.  Python floats are modelled as exact decimals [n, e], meaning  *)
(* n / 10^e, kept normalised (no trailing zero in n, zero is [0, 0]) so    *)
(* that equal numbers are equal values.  +, -, * and < are the exact       *)
(* operations on these decimals; binary rounding error is not modelled.    *)
(*                                                                         *)
(* Dictionaries.  A row of q_table is a Python dict, which keeps its keys  *)
(* in insertion order; it is modelled as a sequence of [a, v] items.       *)
(* q_table itself is a function whose DOMAIN is the set of keys present.   *)
(***************************************************************************)
EXTENDS Integers, Sequences, FiniteSets, TLC

VARIABLES
    q_table,    \* app.py:16, the value table: state key -> row
    alpha,      \* app.py:17, learning rate
    epsilon,    \* app.py:19, exploration probability
    call,       \* the last call made: its arguments, result and the table before it
    calls       \* number of engine calls and requests made so far (bounds the model)

vars == <<q_table, alpha, epsilon, call, calls>>

\* Bound of the model: at most this many engine calls and requests in a behaviour.
MaxCalls == 3

---------------------------------------------------------------------------
(* Exact decimal arithmetic standing for Python's float operations.        *)

RECURSIVE Pow10(_)
Pow10(k) == IF k = 0 THEN 1 ELSE 10 * Pow10(k - 1)

RECURSIVE Norm(_, _)
Norm(n, e) ==
    IF n = 0 THEN [n |-> 0, e |-> 0]
    ELSE IF e > 0 /\ n % 10 = 0 THEN Norm(n \div 10, e - 1)
    ELSE [n |-> n, e |-> e]

D(n, e) == Norm(n, e)

Zero == D(0, 0)

MaxNat(i, j) == IF i >= j THEN i ELSE j

\* The numerator of x over the denominator 10^e (e >= x.e).
Scale(x, e) == IF x.n = 0 THEN 0 ELSE x.n * Pow10(e - x.e)

Add(x, y) == LET e == MaxNat(x.e, y.e) IN Norm(Scale(x, e) + Scale(y, e), e)

Neg(x) == [n |-> 0 - x.n, e |-> x.e]

Sub(x, y) == Add(x, Neg(y))

Mul(x, y) == Norm(x.n * y.n, x.e + y.e)

Less(x, y) == LET e == MaxNat(x.e, y.e) IN Scale(x, e) < Scale(y, e)

\* round(x, nd): nearest decimal with nd places, an exact half going to the
\* even neighbour.
Round(x, nd) ==
    IF x.e <= nd THEN x
    ELSE LET scale == Pow10(x.e - nd)
             q     == x.n \div scale
             rem   == x.n % scale
             up    == \/ 2 * rem > scale
                      \/ 2 * rem = scale /\ q % 2 = 1
         IN  Norm(IF up THEN q + 1 ELSE q, nd)

---------------------------------------------------------------------------
(* Configuration, app.py:15-19.                                            *)

actions == <<"Buy", "Sell", "Hold">>

Actions == {actions[i] : i \in 1..Len(actions)}

gamma == D(9, 1)

KeyError == "KeyError"

---------------------------------------------------------------------------
(* Python dict operations on a row (an insertion-ordered sequence of       *)
(* [a, v] items).                                                          *)

Keys(row) == {row[i].a : i \in 1..Len(row)}

\* row[a]
GetItem(row, a) ==
    IF a \in Keys(row)
    THEN row[CHOOSE i \in 1..Len(row) : row[i].a = a].v
    ELSE KeyError

\* row[a] = v: an existing key keeps its position, a new key goes last.
SetItem(row, a, v) ==
    IF a \in Keys(row)
    THEN [i \in 1..Len(row) |-> IF row[i].a = a THEN [a |-> a, v |-> v] ELSE row[i]]
    ELSE Append(row, [a |-> a, v |-> v])

\* Mutant of MaxFrom: a later item of equal value replaces the best one.
RECURSIVE MaxFrom_last(_, _, _)
MaxFrom_last(row, i, best) ==
    IF i > Len(row) THEN best
    ELSE MaxFrom_last(row, i + 1, IF Less(row[i].v, row[best].v) THEN best ELSE i)

\* max(row, key=row.get): the first key, in iteration order, whose value is
\* not exceeded by any other.
RECURSIVE MaxFrom(_, _, _)
MaxFrom(row, i, best) ==
    IF i > Len(row) THEN best
    ELSE MaxFrom(row, i + 1, IF Less(row[best].v, row[i].v) THEN i ELSE best)

MaxKey(row) == row[MaxFrom(row, 2, 1)].a

\* max(row.values())
MaxValue(row) == row[MaxFrom(row, 2, 1)].v

\* Mutant of ZeroRow: the comprehension misses the last action.
ZeroRow_short == [i \in 1..(Len(actions) - 1) |-> [a |-> actions[i], v |-> Zero]]

\* {a: 0 for a in actions}
ZeroRow == [i \in 1..Len(actions) |-> [a |-> actions[i], v |-> Zero]]

EmptyTable == [k \in {} |-> <<>>]

\* q_table[state] = row
SetRow(t, s, row) == [k \in DOMAIN t \cup {s} |-> IF k = s THEN row ELSE t[k]]

---------------------------------------------------------------------------
(* The policy engine, app.py:21-34.                                        *)

get_state(score, price_change) == <<Round(score, 1), Round(price_change, 2)>>

\* Mutant of choose_action: the row of an unseen state is created on lookup.
choose_action_setdefault(t, state, u, pick) ==
    LET t1 == IF state \notin DOMAIN t THEN SetRow(t, state, ZeroRow) ELSE t IN
    IF Less(u, epsilon) \/ state \notin DOMAIN t
    THEN [ret |-> actions[pick], table |-> t1]
    ELSE [ret |-> MaxKey(t1[state]), table |-> t1]

\* Mutant of choose_action: the test for an unseen state is missing.
choose_action_unguarded(t, state, u, pick) ==
    IF Less(u, epsilon)
    THEN [ret |-> actions[pick], table |-> t]
    ELSE IF state \notin DOMAIN t
         THEN [ret |-> KeyError, table |-> t]
         ELSE [ret |-> MaxKey(t[state]), table |-> t]

\* choose_action(state) with the two random results as arguments: u is
\* random.uniform(0, 1), pick the index random.choice draws.  The result is
\* the returned action (KeyError if a lookup of a missing row is evaluated)
\* and the table the call leaves.
choose_action(t, state, u, pick) ==
    IF Less(u, epsilon) \/ state \notin DOMAIN t
    THEN [ret |-> actions[pick], table |-> t]
    ELSE IF state \notin DOMAIN t
         THEN [ret |-> KeyError, table |-> t]
         ELSE [ret |-> MaxKey(t[state]), table |-> t]

\* Mutant of update_q: future is the best value of the other actions.
update_q_other_future(t, state, action, reward) ==
    LET t1     == IF state \notin DOMAIN t THEN SetRow(t, state, ZeroRow) ELSE t
        old    == GetItem(t1[state], action)
        others == SelectSeq(t1[state], LAMBDA it : it.a # action)
        future == MaxValue(others)
        new    == Add(old, Mul(alpha, Sub(Add(reward, Mul(gamma, future)), old)))
    IN  SetRow(t1, state, SetItem(t1[state], action, new))

\* Mutant of update_q: the table is restarted when a new state arrives.
update_q_evict(t, state, action, reward) ==
    LET t1     == IF state \notin DOMAIN t THEN SetRow(EmptyTable, state, ZeroRow) ELSE t
        old    == GetItem(t1[state], action)
        future == MaxValue(t1[state])
        new    == Add(old, Mul(alpha, Sub(Add(reward, Mul(gamma, future)), old)))
    IN  SetRow(t1, state, SetItem(t1[state], action, new))

\* Mutant of update_q: the learning rate is the literal 0.1, not alpha.
update_q_fixed_rate(t, state, action, reward) ==
    LET t1     == IF state \notin DOMAIN t THEN SetRow(t, state, ZeroRow) ELSE t
        old    == GetItem(t1[state], action)
        future == MaxValue(t1[state])
        new    == Add(old, Mul(D(1, 1), Sub(Add(reward, Mul(gamma, future)), old)))
    IN  SetRow(t1, state, SetItem(t1[state], action, new))

\* Mutant of update_q: the row is re-created on every call.
update_q_reset_row(t, state, action, reward) ==
    LET t1     == SetRow(t, state, ZeroRow)
        old    == GetItem(t1[state], action)
        future == MaxValue(t1[state])
        new    == Add(old, Mul(alpha, Sub(Add(reward, Mul(gamma, future)), old)))
    IN  SetRow(t1, state, SetItem(t1[state], action, new))

\* Mutant of update_q: a new row holds only the action being updated.
update_q_partial_row(t, state, action, reward) ==
    LET t1     == IF state \notin DOMAIN t
                  THEN SetRow(t, state, <<[a |-> action, v |-> Zero]>>) ELSE t
        old    == GetItem(t1[state], action)
        future == MaxValue(t1[state])
        new    == Add(old, Mul(alpha, Sub(Add(reward, Mul(gamma, future)), old)))
    IN  IF action \notin Keys(t1[state]) THEN t1
        ELSE SetRow(t1, state, SetItem(t1[state], action, new))

\* update_q(state, action, reward): the table the call leaves.  A KeyError
\* at line 32 (the row has no such action) ends the call after the row was
\* ensured.
update_q(t, state, action, reward) ==
    LET t1     == IF state \notin DOMAIN t THEN SetRow(t, state, ZeroRow) ELSE t
        old    == GetItem(t1[state], action)
        future == MaxValue(t1[state])
        new    == Add(old, Mul(alpha, Sub(Add(reward, Mul(gamma, future)), old)))
    IN  IF action \notin Keys(t1[state]) THEN t1
        ELSE SetRow(t1, state, SetItem(t1[state], action, new))

\* Mutant of Reward: Sell is rewarded like Buy.
Reward_unsigned(action, price_change) ==
    IF action = "Buy" THEN price_change
    ELSE IF action = "Sell" THEN price_change
    ELSE Zero

\* reward = price_change if Buy, -price_change if Sell, 0 if Hold
Reward(action, price_change) ==
    IF action = "Buy" THEN price_change
    ELSE IF action = "Sell" THEN Neg(price_change)
    ELSE Zero

---------------------------------------------------------------------------
(* Inputs.                                                                 *)

\* Compound sentiment scores returned by get_sentiment_score (four decimals).
Scores == {D(4215, 4)}

\* Price-change ratios.
PriceChanges == {D(137, 4), D(-188, 4)}

\* State keys the calls are made with.
StateKeys == {get_state(sc, pc) : sc \in Scores, pc \in PriceChanges \cup {Zero}}

\* Rewards of direct update_q calls.
Rewards == {D(2, 2)}

\* Values of random.uniform(0, 1).
Draws == {D(0, 0), D(2, 1)}

Picks == 1..Len(actions)

NoCall ==
    [op |-> "none", state |-> <<Zero, Zero>>, action |-> "None", reward |-> Zero,
     price_change |-> Zero, draw |-> Zero, pre |-> EmptyTable]

---------------------------------------------------------------------------
(* Initial state and steps.                                                *)

Init ==
    /\ q_table = EmptyTable
    /\ alpha = D(1, 1)
    /\ epsilon = D(2, 1)
    /\ call = NoCall
    /\ calls = 0

\* A direct call choose_action(s).
ChooseAction ==
    \E s \in StateKeys, u \in Draws, pick \in Picks :
        LET c == choose_action(q_table, s, u, pick) IN
        /\ calls < MaxCalls
        /\ q_table' = c.table
        /\ call' = [op |-> "choose_action", state |-> s, action |-> c.ret,
                    reward |-> Zero, price_change |-> Zero, draw |-> u,
                    pre |-> q_table]
        /\ calls' = calls + 1
        /\ UNCHANGED <<alpha, epsilon>>

\* A direct call update_q(s, a, r).
UpdateQ ==
    \E s \in StateKeys, a \in Actions, r \in Rewards :
        /\ calls < MaxCalls
        /\ q_table' = update_q(q_table, s, a, r)
        /\ call' = [op |-> "update_q", state |-> s, action |-> a, reward |-> r,
                    price_change |-> Zero, draw |-> Zero, pre |-> q_table]
        /\ calls' = calls + 1
        /\ UNCHANGED <<alpha, epsilon>>

\* Lines 87-90 and 105-108: encode the state, choose, compute the reward,
\* update.  An exception raised by choose_action ends the handler.
Request(op, score, price_change, u, pick) ==
    LET state == get_state(score, price_change)
        c     == choose_action(q_table, state, u, pick)
        r     == Reward(c.ret, price_change)
    IN  /\ calls < MaxCalls
        /\ q_table' = IF c.ret = KeyError THEN c.table
                      ELSE update_q(c.table, state, c.ret, r)
        /\ call' = [op |-> op, state |-> state, action |-> c.ret, reward |-> r,
                    price_change |-> price_change, draw |-> u, pre |-> q_table]
        /\ calls' = calls + 1
        /\ UNCHANGED <<alpha, epsilon>>

\* analyze_sentiment with a non-empty text: price_change is 0 when no price
\* row matches, else (close - open) / open.
AnalyzeSentiment ==
    \E score \in Scores, pc \in PriceChanges \cup {Zero}, u \in Draws, pick \in Picks :
        Request("analyze_sentiment", score, pc, u, pick)

\* analyze_sentiment with an empty text: a warning and an early return.
AnalyzeSentimentEmpty ==
    /\ call' = [NoCall EXCEPT !.op = "analyze_sentiment", !.pre = q_table]
    /\ UNCHANGED <<q_table, alpha, epsilon, calls>>

\* handle_chat with a non-empty message: price_change is simulated.
HandleChat ==
    \E score \in Scores, pc \in PriceChanges, u \in Draws, pick \in Picks :
        Request("handle_chat", score, pc, u, pick)

\* handle_chat with an empty message: an info box and an early return.
HandleChatEmpty ==
    /\ call' = [NoCall EXCEPT !.op = "handle_chat", !.pre = q_table]
    /\ UNCHANGED <<q_table, alpha, epsilon, calls>>

Next ==
    \/ ChooseAction
    \/ UpdateQ
    \/ AnalyzeSentiment
    \/ AnalyzeSentimentEmpty
    \/ HandleChat
    \/ HandleChatEmpty

Spec == Init /\ [][Next]_vars

\* The engine with the exploration probability set to one of its extreme
\* values or left at its default.
Epsilons == {D(0, 0), D(2, 1), D(1, 0)}

InitEps ==
    /\ q_table = EmptyTable
    /\ alpha = D(1, 1)
    /\ epsilon \in Epsilons
    /\ call = NoCall
    /\ calls = 0

SpecEps == InitEps /\ [][Next]_vars

\* The engine with the learning rate set to 0, over a table that is empty
\* or was learned before with the default learning rate.
LearnedTables ==
    {EmptyTable,
     SetRow(EmptyTable, <<D(4, 1), D(1, 2)>>,
            <<[a |-> "Buy", v |-> D(137, 5)], [a |-> "Sell", v |-> Zero],
              [a |-> "Hold", v |-> Zero]>>),
     SetRow(EmptyTable, <<D(4, 1), D(-2, 2)>>,
            <<[a |-> "Buy", v |-> Zero], [a |-> "Sell", v |-> D(188, 5)],
              [a |-> "Hold", v |-> D(1692, 7)]>>)}

InitAlpha0 ==
    /\ q_table \in LearnedTables
    /\ alpha = Zero
    /\ epsilon = D(2, 1)
    /\ call = [NoCall EXCEPT !.pre = q_table]
    /\ calls = 0

SpecAlpha0 == InitAlpha0 /\ [][Next]_vars

---------------------------------------------------------------------------
(* Properties.  `call` holds the last call: call.pre is the table before   *)
(* it and q_table the table after it.                                      *)

Handlers == {"analyze_sentiment", "handle_chat"}

\* The last step was a handler that got as far as choose_action.
IsRequest == call.op \in Handlers /\ call.action # "None"

\* The last step ran update_q(call.state, call.action, call.reward).
IsUpdate == call.op = "update_q" \/ (IsRequest /\ call.action \in Actions)

\* The last step ran choose_action(call.state) with the draw call.draw and
\* got call.action.
IsChoose == call.op = "choose_action" \/ IsRequest

WasAbsent == call.state \notin DOMAIN call.pre

\* The value of action a in the row of state s of table t, 0 if s has no row.
ValueOr0(t, s, a) == IF s \in DOMAIN t THEN GetItem(t[s], a) ELSE Zero

\* The position of an action in the fixed order Buy, Sell, Hold.
Position(a) == CHOOSE i \in 1..Len(actions) : actions[i] = a

\* C1: every state key of the table has a row of exactly three entries, one
\* for each of Buy, Sell and Hold.
RowsComplete ==
    \A s \in DOMAIN q_table :
        /\ Len(q_table[s]) = 3
        /\ Keys(q_table[s]) = {"Buy", "Sell", "Hold"}

\* C1 witness: a table of several rows, one of them just created by update_q.
RowsCompleteWitness ==
    /\ IsUpdate
    /\ WasAbsent
    /\ Cardinality(DOMAIN q_table) >= 2

\* C2: a direct choose_action call leaves the table as it was: the same keys
\* and the same rows.
ChooseReadsOnly ==
    call.op = "choose_action" =>
        /\ DOMAIN q_table = DOMAIN call.pre
        /\ \A s \in DOMAIN call.pre : q_table[s] = call.pre[s]

\* C2 witness: choose_action was called on an absent key of a non-empty table.
ChooseReadsOnlyWitness ==
    /\ call.op = "choose_action"
    /\ WasAbsent
    /\ DOMAIN call.pre # {}
    /\ call.state \notin DOMAIN q_table

\* C3: choose_action never evaluates the lookup of a missing row, and on an
\* absent key it returns one of Buy, Sell, Hold whatever the draw and epsilon.
ChooseNeverFails ==
    IsChoose =>
        /\ call.action # KeyError
        /\ WasAbsent => call.action \in {"Buy", "Sell", "Hold"}

\* C3 witness: epsilon is 0, the draw is not below it, the key is absent, and
\* an action came back.
ChooseNeverFailsWitness ==
    /\ call.op = "choose_action"
    /\ WasAbsent
    /\ epsilon = Zero
    /\ ~Less(call.draw, epsilon)
    /\ call.action = "Hold"

\* The last choose_action took the exploitation branch.
Exploited == IsChoose /\ ~WasAbsent /\ ~Less(call.draw, epsilon)

\* C4: in the exploitation branch the returned action has a value no other
\* action of the row exceeds, every action before it in the order Buy, Sell,
\* Hold has a strictly smaller value, and it is Buy when the three are equal.
ExploitFirstMax ==
    Exploited =>
        LET row == call.pre[call.state]
            got == call.action
        IN  /\ got \in Actions
            /\ \A b \in Actions :
                /\ ~Less(GetItem(row, got), GetItem(row, b))
                /\ Position(b) < Position(got) =>
                       Less(GetItem(row, b), GetItem(row, got))
            /\ (\A b \in Actions : GetItem(row, b) = GetItem(row, "Buy")) => got = "Buy"

\* C4 witness: exploitation on a learned row where Sell and Hold tie for the
\* maximum and Sell, the earlier one, is returned.
ExploitFirstMaxWitness ==
    /\ Exploited
    /\ call.action = "Sell"
    /\ GetItem(call.pre[call.state], "Sell") = GetItem(call.pre[call.state], "Hold")
    /\ Less(GetItem(call.pre[call.state], "Buy"), Zero)

\* The greatest value of the row of s in t (0 if s has no row), stated
\* without max: a value of the row that none exceeds.
Future(t, s) ==
    IF s \notin DOMAIN t THEN Zero
    ELSE LET vals == {t[s][i].v : i \in 1..Len(t[s])}
         IN  CHOOSE v \in vals : \A w \in vals : ~Less(v, w)

\* C5: after update_q the entry (state, action) is
\* old + alpha * (reward + gamma * future - old), with old and future read
\* from the row of the same state before the write.
UpdateIsTD ==
    IsUpdate =>
        LET old    == ValueOr0(call.pre, call.state, call.action)
            future == Future(call.pre, call.state)
            target == Sub(Add(call.reward, Mul(gamma, future)), old)
        IN  /\ call.state \in DOMAIN q_table
            /\ GetItem(q_table[call.state], call.action) = Add(old, Mul(alpha, target))

\* C5 witness: an update of an entry whose old value is not 0 and is not the
\* greatest of its row.
UpdateIsTDWitness ==
    /\ IsUpdate
    /\ ~WasAbsent
    /\ ValueOr0(call.pre, call.state, call.action) # Zero
    /\ Future(call.pre, call.state) # ValueOr0(call.pre, call.state, call.action)
    /\ Future(call.pre, call.state) # Zero
    /\ call.reward # Zero

\* C6: a request on a state key that had no row leaves a row in which the
\* chosen action holds alpha * reward, with reward price_change for Buy,
\* -price_change for Sell and 0 for Hold, and the two other actions hold 0.
FirstRequest ==
    (IsRequest /\ WasAbsent) =>
        LET reward == CASE call.action = "Buy" -> call.price_change
                        [] call.action = "Sell" -> Sub(Zero, call.price_change)
                        [] OTHER -> Zero
        IN  /\ call.state \in DOMAIN q_table
            /\ call.action \in Actions
            /\ \A b \in Actions :
                   GetItem(q_table[call.state], b) =
                       IF b = call.action THEN Mul(alpha, reward) ELSE Zero

\* C6 witness: the first request, with score 0.42.. and price change 0.0137,
\* is on (0.4, 0.01) and chose Buy; the row holds Buy = 0.00137, Sell = 0,
\* Hold = 0.
FirstRequestWitness ==
    /\ IsRequest
    /\ WasAbsent
    /\ call.state = <<D(4, 1), D(1, 2)>>
    /\ call.price_change = D(137, 4)
    /\ call.action = "Buy"
    /\ q_table[call.state] = <<[a |-> "Buy", v |-> D(137, 5)],
                               [a |-> "Sell", v |-> Zero],
                               [a |-> "Hold", v |-> Zero]>>

\* C7: the table starts empty, and no step removes a state key or an action
\* entry of a row.
TableGrows ==
    /\ q_table = EmptyTable
    /\ [][\A s \in DOMAIN q_table :
              /\ s \in DOMAIN q_table'
              /\ Keys(q_table[s]) \subseteq Keys(q_table'[s])]_vars

\* C7 witness: a table of two rows gets a third.
TableGrowsWitness ==
    /\ Cardinality(DOMAIN call.pre) = 2
    /\ Cardinality(DOMAIN q_table) = 3

\* C8 as stated: after a choose_action or update_q call on a state that had
\* no row, the table holds exactly three entries for that state.
RowAfterAnyCall ==
    (call.op \in {"choose_action", "update_q"} /\ WasAbsent) =>
        /\ call.state \in DOMAIN q_table
        /\ Len(q_table[call.state]) = 3
        /\ Keys(q_table[call.state]) = Actions

\* C8 amended: update_q on a state that had no row leaves exactly three
\* entries for it, in the order Buy, Sell, Hold, with 0 for every action other
\* than the updated one; choose_action on such a state leaves it without a row.
RowAfterUpdateOnly ==
    /\ (call.op = "update_q" /\ WasAbsent) =>
           /\ call.state \in DOMAIN q_table
           /\ Len(q_table[call.state]) = 3
           /\ \A i \in 1..3 :
                  /\ q_table[call.state][i].a = actions[i]
                  /\ actions[i] # call.action => q_table[call.state][i].v = Zero
    /\ (call.op = "choose_action" /\ WasAbsent) => call.state \notin DOMAIN q_table

\* C8 witness: update_q created a row whose updated entry is not 0.
RowAfterUpdateOnlyWitness ==
    /\ call.op = "update_q"
    /\ WasAbsent
    /\ call.state \in DOMAIN q_table
    /\ GetItem(q_table[call.state], call.action) # Zero

\* C9: with alpha = 0 an update changes no stored value: every row that
\* existed is as it was, and a row the update created holds 0 three times.
ZeroRateKeepsValues ==
    (alpha = Zero /\ IsUpdate) =>
        /\ \A s \in DOMAIN call.pre : s \in DOMAIN q_table /\ q_table[s] = call.pre[s]
        /\ \A s \in DOMAIN q_table \ DOMAIN call.pre :
               \A i \in 1..Len(q_table[s]) : q_table[s][i].v = Zero

\* C9 witness: with alpha = 0, an update with a reward other than 0 of an
\* entry of a learned row whose values are not 0.
ZeroRateKeepsValuesWitness ==
    /\ alpha = Zero
    /\ IsUpdate
    /\ ~WasAbsent
    /\ call.reward # Zero
    /\ Future(call.pre, call.state) # Zero

\* C10: update_q changes at most the entry (state, action): the other
\* actions of the state keep their values (0 in a new row), every other
\* row is as it was, and no key other than state is added.
UpdateFrame ==
    IsUpdate =>
        /\ DOMAIN q_table = DOMAIN call.pre \cup {call.state}
        /\ \A s \in DOMAIN call.pre : s # call.state => q_table[s] = call.pre[s]
        /\ \A b \in Actions \ {call.action} :
               GetItem(q_table[call.state], b) = ValueOr0(call.pre, call.state, b)

\* C10 witness: an update of a row in which another action holds a value
\* that is not 0, in a table that has another row.
UpdateFrameWitness ==
    /\ IsUpdate
    /\ ~WasAbsent
    /\ Cardinality(DOMAIN call.pre) >= 2
    /\ \E b \in Actions \ {call.action} : ValueOr0(call.pre, call.state, b) # Zero
    /\ q_table[call.state] # call.pre[call.state]

=============================================================================
